---- MODULE Spec2Model ----
(***************************************************************************)
(* Model of factual_scene_graph/evaluation/evaluator.py: the Evaluator     *)
(* that normalises candidates and references, dispatches to one scorer     *)
(* and scales the scores.                                                   *)
(*                                                                          *)
(* A Python string is a sequence of one-character strings.  Two            *)
(* specifications are given: Spec (one evaluate call on an Evaluator that   *)
(* was constructed with some parser / lemmatize / text encoder), and       *)
(* FlatSpec (the two list helpers applied to a nested list).                *)
(***************************************************************************)
EXTENDS Integers, Sequences, FiniteSets, TLC

VARIABLES
    parser,          \* self.parser: "None", or the name of a configured parser
    lemmatize,       \* self.lemmatize
    text_encoder,    \* TRUE iff self.text_encoder was set by __init__
    candidates,      \* argument of the call
    references,      \* argument of the call
    method,          \* argument of the call
    return_graphs,   \* argument of the call
    pc,              \* "ready" (call pending), "done" (call over), "flat", "restored"
    outcome,         \* what the call did: returned value or raised error
    parserCalls,     \* log of self.parser.parse invocations of the call
    scorerCalls,     \* log of scorer-function invocations of the call
    nested,          \* FlatSpec: the nested list X
    flat,            \* FlatSpec: the flat list of _flatten_nested_list(X)
    structure,       \* FlatSpec: the structure of _flatten_nested_list(X)
    restored         \* FlatSpec: _recover_nested_list_structure(flat, structure)

vars == <<parser, lemmatize, text_encoder, candidates, references, method,
          return_graphs, pc, outcome, parserCalls, scorerCalls,
          nested, flat, structure, restored>>

(***************************************************************************)
(* Bounds of the model.                                                     *)
(***************************************************************************)
\* The size of the input of one call: the number of candidates, plus the
\* number of elements of references, plus the number of strings in them.
MaxTotal == 4

Min(a, b) == IF a < b THEN a ELSE b

\* The sum of the lengths of the lists of a list.
RECURSIVE SumOfLens(_)
SumOfLens(lists) ==
    IF lists = <<>> THEN 0 ELSE Len(Head(lists)) + SumOfLens(Tail(lists))

(***************************************************************************)
(* Strings.                                                                 *)
(***************************************************************************)
SP == " "
Letters == {"a", "b", "s"}
Symbols == {",", ";"}

\* str.split(sep) for a one-character sep: empty pieces are kept.
RECURSIVE SplitOn(_, _)
SplitOn(s, sep) ==
    IF \A i \in 1..Len(s) : s[i] # sep
    THEN <<s>>
    ELSE LET k == CHOOSE i \in 1..Len(s) :
                      s[i] = sep /\ \A j \in 1..(i - 1) : s[j] # sep
         IN  <<SubSeq(s, 1, k - 1)>> \o SplitOn(SubSeq(s, k + 1, Len(s)), sep)

\* sep.join(parts), sep a string
RECURSIVE Join(_, _)
Join(parts, sep) ==
    IF parts = <<>> THEN <<>>
    ELSE IF Len(parts) = 1 THEN parts[1]
    ELSE parts[1] \o sep \o Join(Tail(parts), sep)

\* str.strip()
RECURSIVE Strip(_)
Strip(s) ==
    IF s = <<>> THEN s
    ELSE IF s[1] = SP THEN Strip(Tail(s))
    ELSE IF s[Len(s)] = SP THEN Strip(SubSeq(s, 1, Len(s) - 1))
    ELSE s

NonEmpty(parts) == SelectSeq(parts, LAMBDA p : p # <<>>)

\* The input strings of the model: a graph string of two tuples, the first
\* written with spaces and the second without, and a raw caption.
Graph == <<"b", "s", " ", ",", " ", "a", ";", "a", "s", ",", "b", ",", "s">>
Caption == <<"a", "s", " ", "b">>
Items == {Graph, Caption}

(***************************************************************************)
(* Collaborators of the Evaluator that live outside evaluator.py.           *)
(***************************************************************************)
\* utils.is_graph_format: the string is a ";"-separated list of tuples, each
\* a ","-separated list of two or three non-blank fields.
is_graph_format(s) ==
    LET tuples == SplitOn(s, ";")
    IN  \A t \in 1..Len(tuples) :
            LET fields == SplitOn(tuples[t], ",")
            IN  /\ Len(fields) \in {2, 3}
                /\ \A f \in 1..Len(fields) : Strip(fields[f]) # <<>>

\* utils.space_out_symbols_in_graph: every symbol of the grammar is
\* surrounded by single spaces, runs of spaces collapse, the ends are bare.
RECURSIVE PadSymbols(_)
PadSymbols(s) ==
    IF s = <<>> THEN <<>>
    ELSE (IF s[1] \in Symbols THEN <<SP, s[1], SP>> ELSE <<s[1]>>)
         \o PadSymbols(Tail(s))

space_out_symbols_in_graph(s) ==
    Join(NonEmpty(SplitOn(PadSymbols(s), SP)), <<SP>>)

\* WordNetLemmatizer.lemmatize: a plural word loses its final "s"; a token
\* that is not a word of the dictionary comes back unchanged.
Lemma(token) ==
    IF /\ Len(token) > 1
       /\ \A i \in 1..Len(token) : token[i] \in Letters
       /\ token[Len(token)] = "s"
    THEN SubSeq(token, 1, Len(token) - 1)
    ELSE token

\* parser.parse on one text: the words of the text become the fields of one
\* tuple.  Parser "tight" writes no spaces, parser "spaced" writes " , ".
Words(s) ==
    NonEmpty(SplitOn([i \in 1..Len(s) |-> IF s[i] \in Symbols THEN SP ELSE s[i]], SP))

ParseOne(p, text) ==
    Join(Words(text), IF p = "spaced" THEN <<SP, ",", SP>> ELSE <<",">>)

\* parser.parse(texts, ...): one graph string per text, in order.
ParserParse(p, texts) == [i \in 1..Len(texts) |-> ParseOne(p, texts[i])]

Parsers == {"tight", "spaced"}

\* The values a scorer may return: v stands for the score v / 2.
ScoreValues == {0, 1, 2}
ScoreOne == CHOOSE m \in ScoreValues : \A v \in ScoreValues : v <= m

(***************************************************************************)
(* Evaluator.                                                               *)
(***************************************************************************)
\* An element of `references` is a Python list of strings, or some other
\* object (here: a bare string given where a list is expected).
ListOf(xs) == [kind |-> "list", val |-> xs]
NotAList(x) == [kind |-> "str", val |-> x]
IsList(x) == x.kind = "list"

\* The lists held by a sequence of list elements.
Unwrap(refs) == [k \in 1..Len(refs) |-> refs[k].val]

_process_graphs(graph_string) ==
    IF lemmatize
    THEN LET tokens == SplitOn(graph_string, SP)
         IN  Join([i \in 1..Len(tokens) |-> Lemma(tokens[i])], <<SP>>)
    ELSE graph_string

_all_items_are_graphs(items) ==
    \A i \in 1..Len(items) : is_graph_format(items[i])

RECURSIVE _flatten_nested_list(_)
_flatten_nested_list(nested_list) ==
    IF nested_list = <<>>
    THEN [flat_list |-> <<>>, structure |-> <<>>]
    ELSE LET n == Len(nested_list)
             init == _flatten_nested_list(SubSeq(nested_list, 1, n - 1))
             sublist == nested_list[n]
         IN  [flat_list |-> init.flat_list \o sublist,
              structure |-> Append(init.structure, Len(sublist))]

\* Faulty variant of Slice: the upper index is taken as inclusive.
Slice_inclusive(xs, lo, hi) == SubSeq(xs, Min(lo, Len(xs)) + 1, Min(hi + 1, Len(xs)))

\* flat_list[lo:hi] of Python (0-based, hi exclusive, clamped to the list).
Slice(xs, lo, hi) == SubSeq(xs, Min(lo, Len(xs)) + 1, Min(hi, Len(xs)))

RECURSIVE RecoverFrom(_, _, _)
RecoverFrom(flat_list, struct, index) ==
    IF struct = <<>> THEN <<>>
    ELSE <<Slice(flat_list, index, index + Head(struct))>>
         \o RecoverFrom(flat_list, Tail(struct), index + Head(struct))

_recover_nested_list_structure(flat_list, struct) ==
    RecoverFrom(flat_list, struct, 0)

\* Faulty variant of needs_parsing: parse whenever a parser is configured.
needs_parsing_if_parser(items, is_nested) == parser # "None"

\* Line 126: whether the collection holds an item that is not graph-format.
needs_parsing(items, is_nested) ==
    LET sublists == IF is_nested THEN items ELSE <<items>>
    IN  ~ \A k \in 1..Len(sublists) :
              \A i \in 1..Len(sublists[k]) : is_graph_format(sublists[k][i])

\* Faulty variant of Normalise: symbol spacing before lemmatisation.
Normalise_spacing_first(parsed_flat_list) ==
    LET spaced == [i \in 1..Len(parsed_flat_list) |->
                      space_out_symbols_in_graph(parsed_flat_list[i])]
    IN  IF lemmatize
        THEN [i \in 1..Len(spaced) |-> _process_graphs(spaced[i])]
        ELSE spaced

\* Lines 140-144: lemmatisation if enabled, then symbol spacing, per item.
Normalise(parsed_flat_list) ==
    LET lemmatized == IF lemmatize
                      THEN [i \in 1..Len(parsed_flat_list) |->
                               _process_graphs(parsed_flat_list[i])]
                      ELSE parsed_flat_list
    IN  [i \in 1..Len(lemmatized) |-> space_out_symbols_in_graph(lemmatized[i])]

\* Result: the error raised ("none" if none), the value returned, and the
\* parser.parse calls made.  `coll` names the collection in the log.
_parse_if_needed(items, is_nested, coll) ==
    LET fs == IF is_nested
              THEN _flatten_nested_list(items)
              ELSE [flat_list |-> items, structure |-> <<>>]
        texts == fs.flat_list
        needs == needs_parsing(items, is_nested)
    IN  IF needs /\ parser = "None"
        THEN \* self.parser.parse on None
             [err |-> "AttributeError", value |-> <<>>, calls |-> <<>>]
        ELSE LET parsed_flat_list == IF needs
                                     THEN ParserParse(parser, texts)
                                     ELSE fs.flat_list
                 calls == IF needs
                          THEN <<[coll |-> coll, texts |-> texts,
                                  out |-> parsed_flat_list]>>
                          ELSE <<>>
                 normal == Normalise(parsed_flat_list)
             IN  [err |-> "none",
                  value |-> IF is_nested
                            THEN _recover_nested_list_structure(normal, fs.structure)
                            ELSE normal,
                  calls |-> calls]

\* Faulty variant of ParserMissing: the check is left out.
ParserMissing_unchecked(cands) == FALSE

\* Line 92: the guard of the parser-required error.
ParserMissing(cands) == ~ _all_items_are_graphs(cands) /\ parser = "None"

\* Line 96: the assertion on the structure of references.
ReferencesAreLists(refs) == \A k \in 1..Len(refs) : IsList(refs[k])

\* Faulty variant of _parse_inputs: the structure of references is asserted
\* after the candidates were parsed.
_parse_inputs_late_assert(cands, refs) ==
    IF ParserMissing(cands)
    THEN [err |-> "ConfigurationError", cands |-> <<>>, refs |-> <<>>, calls |-> <<>>]
    ELSE LET pc_ == _parse_if_needed(cands, FALSE, "candidates")
         IN  IF ~ ReferencesAreLists(refs)
             THEN [err |-> "ShapeError", cands |-> <<>>, refs |-> <<>>, calls |-> pc_.calls]
             ELSE LET pr == _parse_if_needed(Unwrap(refs), TRUE, "references")
                  IN  IF pr.err # "none"
                      THEN [err |-> pr.err, cands |-> <<>>, refs |-> <<>>,
                            calls |-> pc_.calls \o pr.calls]
                      ELSE [err |-> "none", cands |-> pc_.value, refs |-> pr.value,
                            calls |-> pc_.calls \o pr.calls]

_parse_inputs(cands, refs) ==
    IF ParserMissing(cands)
    THEN [err |-> "ConfigurationError", cands |-> <<>>, refs |-> <<>>, calls |-> <<>>]
    ELSE IF ~ ReferencesAreLists(refs)
    THEN [err |-> "ShapeError", cands |-> <<>>, refs |-> <<>>, calls |-> <<>>]
    ELSE LET pc_ == _parse_if_needed(cands, FALSE, "candidates")
         IN  IF pc_.err # "none"
             THEN [err |-> pc_.err, cands |-> <<>>, refs |-> <<>>, calls |-> pc_.calls]
             ELSE LET pr == _parse_if_needed(Unwrap(refs), TRUE, "references")
                  IN  IF pr.err # "none"
                      THEN [err |-> pr.err, cands |-> <<>>, refs |-> <<>>,
                            calls |-> pc_.calls \o pr.calls]
                      ELSE [err |-> "none", cands |-> pc_.value, refs |-> pr.value,
                            calls |-> pc_.calls \o pr.calls]

\* zip(candidates, references): the pairs up to the shorter of the two.
ZipLen(cands, refs) == Min(Len(cands), Len(refs))

\* Lines 185-189 and 199-203: one call of the pair scorer `fn` per zipped
\* pair; vals[i] is the value that call returns.
PairScores(fn, cands, refs, vals) ==
    LET n == ZipLen(cands, refs)
    IN  [err |-> "none",
         scores |-> [i \in 1..n |-> vals[i]],
         calls |-> [i \in 1..n |-> [fn |-> fn, cands |-> <<cands[i]>>,
                                    refs |-> <<refs[i]>>, out |-> <<vals[i]>>]]]

_set_match_score(cands, refs, vals) == PairScores("eval_set_match", cands, refs, vals)

_spice_score(cands, refs, vals) == PairScores("eval_spice", cands, refs, vals)

\* accumulate_phrases pairs candidates with references; self.text_encoder is
\* read next, and exists only if __init__ was given a checkpoint;
\* compute_scores returns one value per pair.
_soft_spice_score(cands, refs, vals) ==
    LET n == ZipLen(cands, refs)
        acc == [fn |-> "accumulate_phrases", cands |-> cands, refs |-> refs, out |-> <<>>]
    IN  IF ~ text_encoder
        THEN [err |-> "AttributeError", scores |-> <<>>, calls |-> <<acc>>]
        ELSE [err |-> "none",
              scores |-> [i \in 1..n |-> vals[i]],
              calls |-> <<acc,
                          [fn |-> "compute_scores", cands |-> cands, refs |-> refs,
                           out |-> [i \in 1..n |-> vals[i]]]>>]

Methods == {"set_match", "spice", "soft_spice"}

\* Lines 58-62: the scorer selected by name.
method_function(meth, cands, refs, vals) ==
    CASE meth = "set_match" -> _set_match_score(cands, refs, vals)
      [] meth = "spice" -> _spice_score(cands, refs, vals)
      [] meth = "soft_spice" -> _soft_spice_score(cands, refs, vals)

\* Line 76.
Scale == 100

\* Faulty variant of Scaled: the scores are returned as the scorer gave them.
Scaled_unscaled(scores) == scores

Scaled(scores) == [i \in 1..Len(scores) |-> Scale * scores[i]]

Raised(error) ==
    [status |-> "raised", error |-> error, scores |-> <<>>, graphs |-> FALSE,
     candidates |-> <<>>, references |-> <<>>]

\* Line 79.
Returned(scores, cands, refs, rg) ==
    [status |-> "returned", error |-> "none", scores |-> scores, graphs |-> rg,
     candidates |-> IF rg THEN cands ELSE <<>>,
     references |-> IF rg THEN refs ELSE <<>>]

\* Line 66: the method name selects no scorer.
UnknownMethod(meth) == meth \notin Methods

\* Faulty variant of Dispatch: a method that selects no scorer falls back to
\* the default scorer, spice.
Dispatch_default_spice(p, meth, rg, vals) ==
    IF p.err # "none"
    THEN [outcome |-> Raised(p.err), parserCalls |-> p.calls, scorerCalls |-> <<>>]
    ELSE LET r == method_function(IF UnknownMethod(meth) THEN "spice" ELSE meth,
                                  p.cands, p.refs, vals)
         IN  IF r.err # "none"
             THEN [outcome |-> Raised(r.err),
                   parserCalls |-> p.calls, scorerCalls |-> r.calls]
             ELSE [outcome |-> Returned(Scaled(r.scores), p.cands, p.refs, rg),
                   parserCalls |-> p.calls, scorerCalls |-> r.calls]

\* Lines 57-79: the call from the result p of _parse_inputs on.  vals are
\* the values the scorer calls return.
Dispatch(p, meth, rg, vals) ==
    IF p.err # "none"
    THEN [outcome |-> Raised(p.err), parserCalls |-> p.calls, scorerCalls |-> <<>>]
    ELSE IF UnknownMethod(meth)
    THEN [outcome |-> Raised("UnknownMethodError"),
          parserCalls |-> p.calls, scorerCalls |-> <<>>]
    ELSE LET r == method_function(meth, p.cands, p.refs, vals)
         IN  IF r.err # "none"
             THEN [outcome |-> Raised(r.err),
                   parserCalls |-> p.calls, scorerCalls |-> r.calls]
             ELSE [outcome |-> Returned(Scaled(r.scores), p.cands, p.refs, rg),
                   parserCalls |-> p.calls, scorerCalls |-> r.calls]

\* The whole call.
evaluate(cands, refs, meth, rg, vals) ==
    Dispatch(_parse_inputs(cands, refs), meth, rg, vals)

(***************************************************************************)
(* Spec: an Evaluator is constructed, then evaluate is called once.  The    *)
(* Evaluator keeps nothing from one call to the next (its fields are set   *)
(* by __init__ only), so one call from each construction covers them all.  *)
(***************************************************************************)
NoOutcome ==
    [status |-> "none", error |-> "none", scores |-> <<>>, graphs |-> FALSE,
     candidates |-> <<>>, references |-> <<>>]

\* The elements of references of size c: the lists of c - 1 strings and,
\* if asked for, a string in the place of a list.
ElementsOfSize(c, lists_only) ==
    {ListOf(xs) : xs \in [1..(c - 1) -> Items]}
    \cup (IF c = 1 /\ ~ lists_only THEN {NotAList(Graph)} ELSE {})

\* The values of references of size s.
RECURSIVE RefsOfSize(_, _)
RefsOfSize(s, lists_only) ==
    IF s = 0 THEN {<<>>}
    ELSE UNION {{<<e>> \o r : e \in ElementsOfSize(c, lists_only),
                              r \in RefsOfSize(s - c, lists_only)} : c \in 1..s}

\* The (candidates, references) of size at most MaxTotal.
Inputs ==
    UNION {{<<cands, refs>> : cands \in [1..sz[1] -> Items],
                              refs \in RefsOfSize(sz[2], FALSE)} :
           sz \in {x \in (0..MaxTotal) \X (0..MaxTotal) : x[1] + x[2] <= MaxTotal}}

\* The nested lists of size at most MaxTotal.
NestedLists ==
    UNION {{Unwrap(refs) : refs \in RefsOfSize(s, TRUE)} : s \in 0..MaxTotal}

Init ==
    /\ parser \in {"None"} \cup Parsers
    /\ lemmatize \in BOOLEAN
    /\ text_encoder \in BOOLEAN
    /\ candidates = <<>>
    /\ references = <<>>
    /\ method = "none"
    /\ return_graphs = FALSE
    /\ pc = "ready"
    /\ outcome = NoOutcome
    /\ parserCalls = <<>>
    /\ scorerCalls = <<>>
    /\ nested = <<>>
    /\ flat = <<>>
    /\ structure = <<>>
    /\ restored = <<>>

Evaluate ==
    /\ pc = "ready"
    /\ \E input \in Inputs, meth \in Methods \cup {"unknown"}, rg \in BOOLEAN :
          \E vals \in [1..ZipLen(input[1], input[2]) -> ScoreValues] :
             \E e \in {evaluate(input[1], input[2], meth, rg, vals)} :
                /\ candidates' = input[1]
                /\ references' = input[2]
                /\ method' = meth
                /\ return_graphs' = rg
                /\ outcome' = e.outcome
                /\ parserCalls' = e.parserCalls
                /\ scorerCalls' = e.scorerCalls
    /\ pc' = "done"
    /\ UNCHANGED <<parser, lemmatize, text_encoder, nested, flat, structure, restored>>

Next == Evaluate

Spec == Init /\ [][Next]_vars

(***************************************************************************)
(* FlatSpec: _flatten_nested_list and _recover_nested_list_structure        *)
(* applied to a nested list X.                                              *)
(***************************************************************************)
FlatInit ==
    /\ parser = "None"
    /\ lemmatize = FALSE
    /\ text_encoder = FALSE
    /\ candidates = <<>>
    /\ references = <<>>
    /\ method = "none"
    /\ return_graphs = FALSE
    /\ pc = "ready"
    /\ outcome = NoOutcome
    /\ parserCalls = <<>>
    /\ scorerCalls = <<>>
    /\ nested \in NestedLists
    /\ flat = <<>>
    /\ structure = <<>>
    /\ restored = <<>>

Flatten ==
    /\ pc = "ready"
    /\ flat' = _flatten_nested_list(nested).flat_list
    /\ structure' = _flatten_nested_list(nested).structure
    /\ pc' = "flat"
    /\ UNCHANGED <<parser, lemmatize, text_encoder, candidates, references, method,
                   return_graphs, outcome, parserCalls, scorerCalls, nested, restored>>

Restore ==
    /\ pc = "flat"
    /\ restored' = _recover_nested_list_structure(flat, structure)
    /\ pc' = "restored"
    /\ UNCHANGED <<parser, lemmatize, text_encoder, candidates, references, method,
                   return_graphs, outcome, parserCalls, scorerCalls, nested, flat,
                   structure>>

FlatNext == Flatten \/ Restore

FlatSpec == FlatInit /\ [][FlatNext]_vars

(***************************************************************************)
(* Properties.                                                              *)
(***************************************************************************)
Done == pc = "done"

SomeNonGraph(items) == \E i \in 1..Len(items) : ~ is_graph_format(items[i])

\* The in-order concatenation of the sublists of a list of lists.
Concat(lists) ==
    LET total == IF lists = <<>> THEN 0
                 ELSE Len(lists[1]) + SumOfLens(Tail(lists))
    IN  [n \in 1..total |->
            LET k == CHOOSE k \in 1..Len(lists) :
                         /\ SumOfLens(SubSeq(lists, 1, k - 1)) < n
                         /\ n <= SumOfLens(SubSeq(lists, 1, k))
            IN  lists[k][n - SumOfLens(SubSeq(lists, 1, k - 1))]]

NothingReturned ==
    /\ outcome.status = "raised"
    /\ outcome.scores = <<>>
    /\ outcome.candidates = <<>>
    /\ outcome.references = <<>>

\* C1: a call with a candidate that is not graph-format on an Evaluator
\* without parser fails with ConfigurationError, without any parser or
\* scorer call and without scores, whatever the references and the method.
C1_ParserRequired ==
    (Done /\ parser = "None" /\ SomeNonGraph(candidates))
        => /\ outcome.status = "raised"
           /\ outcome.error = "ConfigurationError"
           /\ parserCalls = <<>>
           /\ scorerCalls = <<>>
           /\ outcome.scores = <<>>

C1_Witness ==
    /\ Done /\ parser = "None" /\ SomeNonGraph(candidates)
    /\ \E k \in 1..Len(references) : ~ IsList(references[k])
    /\ method = "unknown"
    /\ outcome.error = "ConfigurationError"

\* C2: a call whose candidates are all graph-format and whose references
\* are lists holding an item that is not graph-format, on an Evaluator
\* without parser, fails with ConfigurationError.
C2_RefsParserRequired ==
    (/\ Done /\ parser = "None"
     /\ ~ SomeNonGraph(candidates)
     /\ \A k \in 1..Len(references) : IsList(references[k])
     /\ \E k \in 1..Len(references) : SomeNonGraph(references[k].val))
        => /\ outcome.status = "raised"
           /\ outcome.error = "ConfigurationError"

\* Input normalisation raises nothing: every element of references is a
\* list, and a parser is configured or every string is graph-format.
NormalisationSucceeds ==
    /\ \A k \in 1..Len(references) : IsList(references[k])
    /\ \/ parser # "None"
       \/ /\ ~ SomeNonGraph(candidates)
          /\ \A k \in 1..Len(references) : ~ SomeNonGraph(references[k].val)

\* C3, as stated: a call with a method outside the enumeration fails with
\* UnknownMethodError, invokes no scorer and returns nothing.
C3_AlwaysUnknownMethodError ==
    (Done /\ method \notin {"set_match", "spice", "soft_spice"})
        => /\ outcome.error = "UnknownMethodError"
           /\ scorerCalls = <<>>
           /\ NothingReturned

\* C3, amended: a call with a method outside the enumeration fails, invokes
\* no scorer and returns nothing; the error is UnknownMethodError exactly
\* when input normalisation succeeds, and the normalisation error otherwise.
C3_UnknownMethod ==
    (Done /\ method \notin {"set_match", "spice", "soft_spice"})
        => /\ scorerCalls = <<>>
           /\ NothingReturned
           /\ IF NormalisationSucceeds
              THEN outcome.error = "UnknownMethodError"
              ELSE outcome.error \in {"ConfigurationError", "ShapeError", "AttributeError"}

C3_Witness ==
    /\ Done /\ method = "unknown"
    /\ outcome.error = "UnknownMethodError"
    /\ Len(candidates) > 0 /\ Len(references) > 0
    /\ parserCalls # <<>>

\* C4, as stated: a call with an element of references that is not a list
\* fails with ShapeError before any parser or scorer call.
C4_AlwaysShapeError ==
    (Done /\ \E k \in 1..Len(references) : ~ IsList(references[k]))
        => /\ outcome.status = "raised"
           /\ outcome.error = "ShapeError"
           /\ parserCalls = <<>>
           /\ scorerCalls = <<>>

\* C4, amended: such a call fails before any parser or scorer call, with
\* ShapeError unless a candidate is not graph-format and no parser is
\* configured, in which case with ConfigurationError.
C4_ShapeError ==
    (Done /\ \E k \in 1..Len(references) : ~ IsList(references[k]))
        => /\ outcome.status = "raised"
           /\ outcome.error = IF parser = "None" /\ SomeNonGraph(candidates)
                              THEN "ConfigurationError" ELSE "ShapeError"
           /\ parserCalls = <<>>
           /\ scorerCalls = <<>>

C4_Witness ==
    /\ Done
    /\ \E k \in 1..Len(references) : ~ IsList(references[k])
    /\ parser # "None" /\ SomeNonGraph(candidates)
    /\ method \in {"set_match", "spice", "soft_spice"}
    /\ outcome.error = "ShapeError"

\* C5: a call with len(candidates) # len(references) fails with ShapeError,
\* and a call that returns has as many references as candidates and returns
\* one score per candidate.
C5_Aligned ==
    Done => /\ Len(candidates) # Len(references)
                => outcome.status = "raised" /\ outcome.error = "ShapeError"
            /\ outcome.status = "returned"
                => /\ Len(candidates) = Len(references)
                   /\ Len(outcome.scores) = Len(candidates)

\* C6: the parser is not invoked for candidates when every candidate is
\* graph-format, nor for references when every item of every reference
\* sublist is graph-format.
C6_NoNeedlessParse ==
    Done => /\ ~ SomeNonGraph(candidates)
                => \A c \in 1..Len(parserCalls) : parserCalls[c].coll # "candidates"
            /\ (/\ \A k \in 1..Len(references) : IsList(references[k])
                /\ \A k \in 1..Len(references) : ~ SomeNonGraph(references[k].val))
                => \A c \in 1..Len(parserCalls) : parserCalls[c].coll # "references"

C6_Witness ==
    /\ Done /\ parser # "None" /\ lemmatize
    /\ Len(candidates) > 1 /\ ~ SomeNonGraph(candidates)
    /\ Len(parserCalls) = 1 /\ parserCalls[1].coll = "references"
    /\ outcome.status = "returned"

\* C7: the scores returned are 100 times the values the selected scorer
\* returned, element by element and in order, for every method and with or
\* without the graphs; scorer values in [0, 1] give scores in [0, 100].
C7_Scaled ==
    (Done /\ outcome.status = "returned")
        => /\ outcome.graphs = return_graphs
           /\ method \in {"set_match", "spice"}
                => /\ Len(scorerCalls) = Len(outcome.scores)
                   /\ \A i \in 1..Len(scorerCalls) :
                          /\ scorerCalls[i].fn = IF method = "spice" THEN "eval_spice"
                                                  ELSE "eval_set_match"
                          /\ outcome.scores[i] = 100 * scorerCalls[i].out[1]
           /\ method = "soft_spice"
                => LET last == scorerCalls[Len(scorerCalls)]
                   IN  /\ last.fn = "compute_scores"
                       /\ Len(outcome.scores) = Len(last.out)
                       /\ \A i \in 1..Len(last.out) :
                              outcome.scores[i] = 100 * last.out[i]
           /\ \A c \in 1..Len(scorerCalls) : \A i \in 1..Len(scorerCalls[c].out) :
                  0 <= scorerCalls[c].out[i] /\ scorerCalls[c].out[i] <= ScoreOne
           /\ \A i \in 1..Len(outcome.scores) :
                  0 <= outcome.scores[i] /\ outcome.scores[i] <= 100 * ScoreOne

C7_Witness ==
    /\ Done /\ outcome.status = "returned" /\ return_graphs
    /\ method = "soft_spice"
    /\ outcome.scores = <<100 * ScoreOne, 100>>

\* C8: flat is the in-order concatenation of the sublists of X, structure
\* the list of their lengths, and restoring flat by structure gives X.
C8_RoundTrip ==
    /\ pc \in {"flat", "restored"}
          => /\ flat = Concat(nested)
             /\ structure = [k \in 1..Len(nested) |-> Len(nested[k])]
    /\ pc = "restored" => restored = nested

C8_Witness ==
    /\ pc = "restored"
    /\ nested = <<<<>>, <<Graph, Caption>>>>
    /\ restored = nested

\* C9: every item passed to the parser is an item that is not graph-format.
C9_OnlyNonGraphParsed ==
    Done => \A c \in 1..Len(parserCalls) :
                \A i \in 1..Len(parserCalls[c].texts) :
                    ~ is_graph_format(parserCalls[c].texts[i])

\* The strings of a collection after the parser: the output of the parser
\* call made for the collection, or its strings as given if none was made.
AfterParser(coll, given) ==
    IF \E c \in 1..Len(parserCalls) : parserCalls[c].coll = coll
    THEN LET c == CHOOSE c \in 1..Len(parserCalls) : parserCalls[c].coll = coll
         IN  parserCalls[c].out
    ELSE given

\* space_out_symbols(L(g)).
Canonical(g) ==
    space_out_symbols_in_graph(
        IF lemmatize
        THEN Join([t \in 1..Len(SplitOn(g, SP)) |-> Lemma(SplitOn(g, SP)[t])], <<SP>>)
        ELSE g)

CanonicalCandidates ==
    LET g == AfterParser("candidates", candidates)
    IN  [i \in 1..Len(candidates) |-> Canonical(g[i])]

CanonicalReferences ==
    LET lists == Unwrap(references)
        g == AfterParser("references", Concat(lists))
    IN  [k \in 1..Len(lists) |->
            [j \in 1..Len(lists[k]) |->
                Canonical(g[SumOfLens(SubSeq(lists, 1, k - 1)) + j])]]

\* C10: every string handed to a scorer, and returned with the scores, is
\* space_out_symbols(L(g)), g the parser's output for the item if its
\* collection was parsed and the item otherwise; the resolved references
\* keep the nesting of the input.
C10_Normalised ==
    (Done /\ (outcome.status = "returned" \/ scorerCalls # <<>>))
        => /\ \A c \in 1..Len(parserCalls) :
                  /\ parserCalls[c].texts =
                         IF parserCalls[c].coll = "candidates" THEN candidates
                         ELSE Concat(Unwrap(references))
                  /\ Len(parserCalls[c].out) = Len(parserCalls[c].texts)
           /\ outcome.status = "returned" /\ return_graphs
                => /\ outcome.candidates = CanonicalCandidates
                   /\ outcome.references = CanonicalReferences
                   /\ Len(outcome.references) = Len(references)
                   /\ \A k \in 1..Len(references) :
                          Len(outcome.references[k]) = Len(references[k].val)
           /\ \A c \in 1..Len(scorerCalls) :
                  IF scorerCalls[c].fn \in {"eval_set_match", "eval_spice"}
                  THEN /\ scorerCalls[c].cands = <<CanonicalCandidates[c]>>
                       /\ scorerCalls[c].refs = <<CanonicalReferences[c]>>
                  ELSE /\ scorerCalls[c].cands = CanonicalCandidates
                       /\ scorerCalls[c].refs = CanonicalReferences

C10_Witness ==
    /\ Done /\ outcome.status = "returned" /\ return_graphs /\ lemmatize
    /\ candidates = <<Graph>>
    /\ references = <<ListOf(<<Caption, Graph>>)>>
    /\ parser = "spaced"
    /\ outcome.candidates = <<<<"b", " ", ",", " ", "a", " ", ";", " ", "a", "s",
                                " ", ",", " ", "b", " ", ",", " ", "s">>>>
    /\ outcome.references[1][1] = <<"a", " ", ",", " ", "b">>

====
